---- MODULE Spec2Model ----
(***************************************************************************)
(* sonar-tools: the HTTP gateway (sonarqube/env.py) and the background     *)
(* task handle (sonarqube/tasks.py).                                       *)
(*                                                                         *)
(* Python values are modelled as follows: None is the empty tuple and a    *)
(* present value x is <<x>>; a dict is a function whose DOMAIN is its key  *)
(* set ('k' in d is "k" \in DOMAIN d); a raised exception is the exc field *)
(* of a call's result, "none" when the call returns.                       *)
(***************************************************************************)
EXTENDS Integers, Sequences, FiniteSets, TLC

VARIABLES
    tasks,        \* the Task objects alive: <<[key, json]>>, json is Task._json
    stats,        \* history, one entry per Task: requests made on its behalf
    last,         \* history: the last completed call, its input and its outcome
    context,      \* the Environment object: root_url, token, version, major, ...
    nreq,         \* history: number of requests the Environment sent, per api
    endpoint,     \* Task.endpoint as wait_for_completion sees it
    pc,           \* position of wait_for_completion: "idle", "loop" or "done"
    timeout,      \* wait_for_completion's timeout argument, in units of 0.5
    wait_time,    \* local wait_time, in units of 0.5
    sleep_time,   \* local sleep_time, in units of 0.5
    params,       \* local params, the query of each ce/activity poll
    status,       \* local status
    polls         \* history: the ce/activity polls made and what they said of the task

taskVars == <<tasks, stats>>
envVars == <<context, nreq>>
waitVars == <<endpoint, pc, timeout, wait_time, sleep_time, params, status, polls>>
vars == <<tasks, stats, last, context, nreq, endpoint, pc, timeout, wait_time,
          sleep_time, params, status, polls>>

None == <<>>
Some(x) == <<x>>
NoExc == "none"

\* d.get(k, None)
DictGet(d, k) == IF k \in DOMAIN d THEN Some(d[k]) ELSE None

EmptyDict == [k \in {} |-> TRUE]

----
(* tasks.py: the status enumeration *)

SUCCESS == "SUCCESS"
PENDING == "PENDING"
IN_PROGRESS == "IN_PROGRESS"
FAILED == "FAILED"
CANCELED == "CANCELED"
TIMEOUT == "TIMEOUT"
STATUSES == <<SUCCESS, PENDING, IN_PROGRESS, FAILED, CANCELED>>

----
(* The server side: what a request can come back with. *)

TaskIds == {"T1", "T2"}
ComponentKeys == {"projA"}
ScannerContexts == {"ctx"}

\* The optional members of a task record.
HasCtxParts == {EmptyDict, [hasScannerContext |-> TRUE], [hasScannerContext |-> FALSE]}
CtxParts == {EmptyDict} \cup {[scannerContext |-> c] : c \in ScannerContexts}
ErrParts == {EmptyDict, [errorMessage |-> "boom"],
             [errorMessage |-> "boom", errorStacktrace |-> "trace"]}

\* The task records (JSON objects) the server can return for task k: id, type
\* and componentKey are always there, the richer fields may be missing.
TaskRecords(k) ==
    {[id |-> k, type |-> "REPORT", componentKey |-> c] @@ h @@ x @@ e :
        c \in ComponentKeys, h \in HasCtxParts, x \in CtxParts, e \in ErrParts}

\* Transport failures, all of them requests.RequestException.
TransportErrors == {"ConnectionError"}

Failure(e) == [exc |-> e, status_code |-> 0, json |-> EmptyDict]
Response(code, body) == [exc |-> NoExc, status_code |-> code, json |-> body]

\* Outcomes that carry no payload: a transport failure, or an application
\* level error whose body holds an error message only.
ErrorOutcomes ==
    {Failure(e) : e \in TransportErrors} \cup
    {Response(c, [errors |-> "msg"]) : c \in {404, 500}}

\* What a ce/task request for task k can come back with.
TaskOutcomes(k) ==
    ErrorOutcomes \cup {Response(200, [task |-> b]) : b \in TaskRecords(k)}

----
(* env.py: Environment.get / post / delete, as far as the caller sees them: *)
(* o is what the requests library comes back with.                          *)

Result(e, v, l) == [exc |-> e, val |-> v, logged |-> l]

\* get raising on a status outside 2xx, as requests' raise_for_status would
EnvGet_RaiseOnStatus(o) ==
    IF o.exc # NoExc THEN Result(o.exc, None, TRUE)
    ELSE IF (o.status_code \div 100) # 2 THEN Result("HTTPError", None, TRUE)
    ELSE Result(NoExc, Some(o), FALSE)

EnvGet(o) ==
    IF o.exc # NoExc THEN Result(o.exc, None, TRUE)
    ELSE Result(NoExc, Some(o), (o.status_code \div 100) # 2)

EnvPost(o) ==
    IF o.exc # NoExc THEN Result(o.exc, None, TRUE)
    ELSE Result(NoExc, Some(o), (o.status_code \div 100) # 2)

EnvDelete(o) ==
    IF o.exc # NoExc THEN Result(o.exc, None, TRUE)
    ELSE Result(NoExc, Some(o), (o.status_code \div 100) # 2)

----
(* tasks.py: class Task.  Each method is an operator from the Task's key,  *)
(* its cached body j (Task._json) and the outcomes o of the requests it    *)
(* may make, to: the body afterwards, the requests made, how many of them  *)
(* stored a body (loaded) and how many of those replaced a cached one      *)
(* (reloaded), the exception raised and the value returned.                *)

CeTaskRequest(key) ==
    [api |-> "ce/task",
     params |-> [id |-> key, additionalFields |-> "scannerContext,stacktrace"]]

Outcome(j, q, n, m, e, v) ==
    [json |-> j, reqs |-> q, loaded |-> n, reloaded |-> m, exc |-> e, val |-> v]

\* The tail of has_scanner_context, on a loaded body d.
HasScannerContextOf(d) ==
    IF "hasScannerContext" \in DOMAIN d THEN d.hasScannerContext ELSE FALSE

\* Task.__load_context
LoadContext(key, j, o) ==
    IF j # None /\ ("scannerContext" \in DOMAIN j[1] \/ ~HasScannerContextOf(j[1]))
    THEN Outcome(j, <<>>, 0, 0, NoExc, None)
    ELSE LET resp == EnvGet(o) IN
         IF resp.exc # NoExc
         THEN Outcome(j, <<CeTaskRequest(key)>>, 0, 0, resp.exc, None)
         ELSE IF "task" \notin DOMAIN resp.val[1].json
         THEN Outcome(j, <<CeTaskRequest(key)>>, 0, 0, "KeyError", None)
         ELSE Outcome(Some(resp.val[1].json.task), <<CeTaskRequest(key)>>, 1,
                      IF j # None THEN 1 ELSE 0, NoExc, None)

\* Task.__load without its test of the cached body
Load_NoCacheTest(key, j, o) == LoadContext(key, j, o)

\* Task.__load
Load(key, j, o) ==
    IF j # None THEN Outcome(j, <<>>, 0, 0, NoExc, None)
    ELSE LoadContext(key, j, o)

\* Task.has_scanner_context
HasScannerContext(key, j, o) ==
    LET l == Load(key, j, o) IN
    IF l.exc # NoExc THEN l ELSE [l EXCEPT !.val = HasScannerContextOf(l.json[1])]

\* Task.type
Type(key, j, o) ==
    LET l == Load(key, j, o) IN
    IF l.exc # NoExc THEN l ELSE [l EXCEPT !.val = l.json[1].type]

\* Task.component
Component(key, j, o) ==
    LET l == Load(key, j, o) IN
    IF l.exc # NoExc THEN l ELSE [l EXCEPT !.val = l.json[1].componentKey]

\* Task.scanner_context: o1 answers the request of has_scanner_context, o2
\* the one of __load_context.
ScannerContext(key, j, o1, o2) ==
    LET h == HasScannerContext(key, j, o1) IN
    IF h.exc # NoExc THEN h
    ELSE IF ~h.val THEN [h EXCEPT !.val = None]
    ELSE LET c == LoadContext(key, h.json, o2) IN
         Outcome(c.json, h.reqs \o c.reqs, h.loaded + c.loaded,
                 h.reloaded + c.reloaded, c.exc,
                 IF c.exc # NoExc THEN None ELSE DictGet(c.json[1], "scannerContext"))

\* Task.error_details
ErrorDetails(key, j, o) ==
    LET c == LoadContext(key, j, o) IN
    IF c.exc # NoExc THEN c
    ELSE [c EXCEPT !.val = <<DictGet(c.json[1], "errorMessage"),
                             DictGet(c.json[1], "errorStacktrace")>>]

\* Task.error_message
ErrorMessage(key, j, o) ==
    LET c == LoadContext(key, j, o) IN
    IF c.exc # NoExc THEN c ELSE [c EXCEPT !.val = DictGet(c.json[1], "errorMessage")]

\* Task.__init__
NewTask(task_id, data) == [key |-> task_id, json |-> data]

----
(* tasks.py: search *)

RECURSIVE Join(_)
\* ','.join(s), s not empty
Join(s) == IF Len(s) = 1 THEN s[1] ELSE s[1] \o "," \o Join(Tail(s))

MaxListing == 2

\* A record of the ce/activity listing: the listing carries neither of the
\* additional fields of ce/task (scannerContext, errorStacktrace).
ActivityRecords ==
    UNION {{b \in TaskRecords(k) :
              "scannerContext" \notin DOMAIN b /\ "errorStacktrace" \notin DOMAIN b} :
           k \in TaskIds}

Listings == UNION {[1..n -> ActivityRecords] : n \in 0..MaxListing}

SearchOutcomes == ErrorOutcomes \cup {Response(200, [tasks |-> l]) : l \in Listings}

SearchParams(only_current, component_key) ==
    [status |-> Join(STATUSES)]
    @@ (IF only_current THEN [onlyCurrents |-> "true"] ELSE EmptyDict)
    @@ (IF component_key # None THEN [component |-> component_key[1]] ELSE EmptyDict)

\* search making its Task objects without data=t
Search_NoData(only_current, component_key, o) ==
    LET req == [api |-> "ce/activity", params |-> SearchParams(only_current, component_key)]
        resp == EnvGet(o)
    IN  IF resp.exc # NoExc THEN [reqs |-> <<req>>, exc |-> resp.exc, val |-> <<>>]
        ELSE IF "tasks" \notin DOMAIN resp.val[1].json
        THEN [reqs |-> <<req>>, exc |-> "KeyError", val |-> <<>>]
        ELSE LET data == resp.val[1].json.tasks IN
             [reqs |-> <<req>>, exc |-> NoExc,
              val |-> [n \in 1..Len(data) |-> NewTask(data[n].id, None)]]

\* search: the list of Task objects it returns, or the exception it raises
Search(only_current, component_key, o) ==
    LET req == [api |-> "ce/activity", params |-> SearchParams(only_current, component_key)]
        resp == EnvGet(o)
    IN  IF resp.exc # NoExc THEN [reqs |-> <<req>>, exc |-> resp.exc, val |-> <<>>]
        ELSE IF "tasks" \notin DOMAIN resp.val[1].json
        THEN [reqs |-> <<req>>, exc |-> "KeyError", val |-> <<>>]
        ELSE LET data == resp.val[1].json.tasks IN
             [reqs |-> <<req>>, exc |-> NoExc,
              val |-> [n \in 1..Len(data) |-> NewTask(data[n].id, Some(data[n]))]]

----
(* The Environment object and the idle values of the parts a specification *)
(* does not exercise.                                                      *)

\* Environment.__init__
Environment(url, token) ==
    [root_url |-> url, token |-> token, version |-> None,
     major |-> None, minor |-> None, patch |-> None, build |-> None]

\* this.context, the module's default Environment
DefaultContext == Environment("http://localhost:9000", "")

NoPolls ==
    [count |-> 0, first |-> None, seen |-> None, terminal |-> FALSE, prev |-> PENDING,
     others |-> {}]

NoCall == [op |-> "none", task |-> 0, before |-> None, reqs |-> <<>>,
           exc |-> NoExc, val |-> None, arg |-> None]

EnvIdle == context = DefaultContext /\ nreq = 0

WaitIdle ==
    /\ endpoint = None
    /\ pc = "idle"
    /\ timeout = 0
    /\ wait_time = 0
    /\ sleep_time = 0
    /\ params = EmptyDict
    /\ status = PENDING
    /\ polls = NoPolls

----
(* Calls on the Task objects.                                              *)

MaxFetches == 3

NewStats(data) ==
    [fetches |-> 0, loads |-> 0, reloads |-> 0, tcOnly |-> TRUE, seed |-> data]

\* A call of method op on tasks[i] completes with outcome r.
Commit(i, op, r) ==
    /\ stats[i].fetches < MaxFetches
    /\ tasks' = [tasks EXCEPT ![i].json = r.json]
    /\ stats' = [stats EXCEPT ![i] =
                    [fetches |-> @.fetches + Len(r.reqs),
                     loads |-> @.loads + r.loaded,
                     reloads |-> @.reloads + r.reloaded,
                     tcOnly |-> @.tcOnly /\ op \in {"type", "component"},
                     seed |-> @.seed]]
    /\ last' = [op |-> op, task |-> i, before |-> tasks[i].json, reqs |-> r.reqs,
                exc |-> r.exc, val |-> r.val, arg |-> None]
    /\ UNCHANGED <<envVars, waitVars>>

TaskType ==
    \E i \in DOMAIN tasks : \E o \in TaskOutcomes(tasks[i].key) :
        Commit(i, "type", Type(tasks[i].key, tasks[i].json, o))

TaskComponent ==
    \E i \in DOMAIN tasks : \E o \in TaskOutcomes(tasks[i].key) :
        Commit(i, "component", Component(tasks[i].key, tasks[i].json, o))

TaskHasScannerContext ==
    \E i \in DOMAIN tasks : \E o \in TaskOutcomes(tasks[i].key) :
        Commit(i, "has_scanner_context",
               HasScannerContext(tasks[i].key, tasks[i].json, o))

TaskScannerContext ==
    \E i \in DOMAIN tasks : \E o1, o2 \in TaskOutcomes(tasks[i].key) :
        Commit(i, "scanner_context",
               ScannerContext(tasks[i].key, tasks[i].json, o1, o2))

TaskErrorDetails ==
    \E i \in DOMAIN tasks : \E o \in TaskOutcomes(tasks[i].key) :
        Commit(i, "error_details", ErrorDetails(tasks[i].key, tasks[i].json, o))

TaskErrorMessage ==
    \E i \in DOMAIN tasks : \E o \in TaskOutcomes(tasks[i].key) :
        Commit(i, "error_message", ErrorMessage(tasks[i].key, tasks[i].json, o))

TaskSearch ==
    /\ tasks = <<>>
    /\ \E only_current \in BOOLEAN,
          component_key \in {None} \cup {Some(c) : c \in ComponentKeys},
          o \in SearchOutcomes :
           LET r == Search(only_current, component_key, o) IN
           /\ tasks' = r.val
           /\ stats' = [n \in DOMAIN r.val |-> NewStats(r.val[n].json)]
           /\ last' = [op |-> "search", task |-> 0, before |-> None, reqs |-> r.reqs,
                       exc |-> r.exc, val |-> r.val, arg |-> Some(o)]
           /\ UNCHANGED <<envVars, waitVars>>

\* One Task made by its constructor, with or without a body to start from.
InitTask ==
    /\ \E k \in TaskIds : \E data \in {None} \cup {Some(b) : b \in TaskRecords(k)} :
          /\ tasks = <<NewTask(k, data)>>
          /\ stats = <<NewStats(data)>>
    /\ last = NoCall
    /\ EnvIdle
    /\ WaitIdle

NextTask ==
    \/ TaskType
    \/ TaskComponent
    \/ TaskHasScannerContext
    \/ TaskScannerContext
    \/ TaskErrorDetails
    \/ TaskErrorMessage

SpecTask == InitTask /\ [][NextTask]_vars

\* No Task yet: they are made by search.  The Tasks of one search are
\* followed: a search is made as long as none has returned a Task.
InitSearch ==
    /\ tasks = <<>>
    /\ stats = <<>>
    /\ last = NoCall
    /\ EnvIdle
    /\ WaitIdle

NextSearch ==
    \/ TaskSearch
    \/ TaskType
    \/ TaskComponent

SpecSearch == InitSearch /\ [][NextSearch]_vars

----
(* env.py: the Environment object on its own.                              *)

Urls == {"http://localhost:9000", "https://sonar.example"}
Tokens == {"", "squ_0123456789"}
Apis == {"ce/activity", "system/info", "/api/server/version"}
StatusCodes == {200, 204, 302, 404, 500}
MaxRequests == 3

\* What the requests library can come back with for any request.
AnyOutcomes ==
    {Failure(e) : e \in TransportErrors \cup {"Timeout"}} \cup
    {Response(c, b) : c \in StatusCodes, b \in {EmptyDict, [errors |-> "msg"]}}

\* A response body as text: the sequence of its pieces between the dots,
\* which is what text.split('.') returns.
TextResponse(code, pieces) == [exc |-> NoExc, status_code |-> code, text |-> pieces]

\* What a server/version request can come back with: a four piece version,
\* one with a piece that is no number, one of three pieces, an error page.
VersionOutcomes ==
    {Failure(e) : e \in TransportErrors} \cup
    {TextResponse(200, <<"8", "9", "1", "100">>),
     TextResponse(200, <<"7", "9", "6", "100">>),
     TextResponse(200, <<"8", "0", "RC1", "100">>),
     TextResponse(200, <<"8", "9", "1">>),
     TextResponse(500, <<"error">>)}

Numerals == {"0", "1", "6", "7", "8", "9", "100"}

\* int(s) for a numeral s
ParseInt(s) ==
    CASE s = "0" -> 0 [] s = "1" -> 1 [] s = "6" -> 6 [] s = "7" -> 7
      [] s = "8" -> 8 [] s = "9" -> 9 [] s = "100" -> 100

\* Environment.get_version on the Environment self: the Environment
\* afterwards, the requests made, the exception raised or the triple returned.
GetVersion(self, o) ==
    LET req == [api |-> "/api/server/version", params |-> None]
        resp == EnvGet(o)
        fetch == self.version = None
        reqs == IF fetch THEN <<req>> ELSE <<>>
    IN  IF fetch /\ resp.exc # NoExc
        THEN [self |-> self, reqs |-> reqs, exc |-> resp.exc, val |-> None]
        ELSE IF fetch /\ Len(resp.val[1].text) # 4
        THEN [self |-> self, reqs |-> reqs, exc |-> "ValueError", val |-> None]
        ELSE LET pieces == resp.val[1].text
                 after == IF fetch
                          THEN [self EXCEPT !.major = Some(pieces[1]),
                                            !.minor = Some(pieces[2]),
                                            !.patch = Some(pieces[3]),
                                            !.build = Some(pieces[4])]
                          ELSE self
             IN  IF after.major = None
                 THEN [self |-> after, reqs |-> reqs, exc |-> "TypeError", val |-> None]
                 ELSE IF {after.major[1], after.minor[1], after.patch[1]} \subseteq Numerals
                 THEN [self |-> after, reqs |-> reqs, exc |-> NoExc,
                       val |-> Some(<<ParseInt(after.major[1]), ParseInt(after.minor[1]),
                                      ParseInt(after.patch[1])>>)]
                 ELSE [self |-> after, reqs |-> reqs, exc |-> "ValueError", val |-> None]

TaskIdle == tasks = <<>> /\ stats = <<>>

\* A call on the Environment completes.
EnvCommit(op, o, self, reqs, r) ==
    /\ context' = self
    /\ nreq' = nreq + Len(reqs)
    /\ last' = [op |-> op, task |-> 0, before |-> Some(context), reqs |-> reqs,
                exc |-> r.exc, val |-> r.val, arg |-> o]
    /\ UNCHANGED <<taskVars, waitVars>>

EnvGetCall ==
    /\ nreq < MaxRequests
    /\ \E api \in Apis : \E o \in AnyOutcomes :
           EnvCommit("get", Some(o), context, <<[api |-> api, params |-> None]>>, EnvGet(o))

EnvPostCall ==
    /\ nreq < MaxRequests
    /\ \E api \in Apis : \E o \in AnyOutcomes :
           EnvCommit("post", Some(o), context, <<[api |-> api, params |-> None]>>, EnvPost(o))

EnvDeleteCall ==
    /\ nreq < MaxRequests
    /\ \E api \in Apis : \E o \in AnyOutcomes :
           EnvCommit("delete", Some(o), context, <<[api |-> api, params |-> None]>>,
                     EnvDelete(o))

EnvGetVersion ==
    /\ nreq < MaxRequests
    /\ \E o \in VersionOutcomes :
           LET r == GetVersion(context, o) IN
           EnvCommit("get_version", Some(o), r.self, r.reqs, r)

\* Environment.set_url
EnvSetUrl ==
    /\ nreq < MaxRequests
    /\ \E url \in Urls :
           EnvCommit("set_url", None, [context EXCEPT !.root_url = url], <<>>,
                     [exc |-> NoExc, val |-> None])

\* Environment.set_token
EnvSetToken ==
    /\ nreq < MaxRequests
    /\ \E token \in Tokens :
           EnvCommit("set_token", None, [context EXCEPT !.token = token], <<>>,
                     [exc |-> NoExc, val |-> None])

InitEnv ==
    /\ \E url \in Urls, token \in Tokens : context = Environment(url, token)
    /\ nreq = 0
    /\ last = NoCall
    /\ TaskIdle
    /\ WaitIdle

NextEnv ==
    \/ EnvGetCall
    \/ EnvPostCall
    \/ EnvDeleteCall
    \/ EnvGetVersion
    \/ EnvSetUrl
    \/ EnvSetToken

SpecEnv == InitEnv /\ [][NextEnv]_vars

----
(* tasks.py: Task.wait_for_completion.  Time is counted in units of 0.5,   *)
(* the first sleep.                                                        *)

InitialSleep == 1
MaxTimeout == 8

Terminal == {SUCCESS, FAILED, CANCELED}

\* Tuple comparison a >= b of two (major, minor, patch) triples.
TupleGE(a, b) ==
    \/ a[1] > b[1]
    \/ a[1] = b[1] /\ a[2] > b[2]
    \/ a[1] = b[1] /\ a[2] = b[2] /\ a[3] >= b[3]

Versions == {<<7, 9, 6>>, <<8, 0, 0>>, <<8, 9, 1>>}

\* The objects a Task can have as endpoint: an Environment (whose version
\* attribute is None), or an object with a version() method, written
\* [version |-> <<v>>], v being what the method returns.
Endpoints ==
    {Some(DefaultContext)} \cup {Some([version |-> Some(v)]) : v \in Versions}

\* self.endpoint.version()
EndpointVersion(e) ==
    IF e[1].version = None THEN [exc |-> "TypeError", val |-> None]
    ELSE [exc |-> NoExc, val |-> e[1].version]

\* The params dict of the polls.
PollParams(key, type, version) ==
    [status |-> Join(STATUSES), type |-> type]
    @@ (IF TupleGE(version, <<8, 0, 0>>) THEN [component |-> key] ELSE [q |-> key])

\* A record of the listing a poll gets.
PollRecords ==
    {[id |-> k, type |-> "REPORT", componentKey |-> c, status |-> st] :
        k \in TaskIds, c \in ComponentKeys, st \in {STATUSES[n] : n \in DOMAIN STATUSES}}

\* The listings a poll can get: the server lists a task at most once.
PollListings ==
    {l \in UNION {[1..n -> PollRecords] : n \in 0..MaxListing} :
        \A m, n \in DOMAIN l : l[m].id = l[n].id => m = n}

PollOutcomes == ErrorOutcomes \cup {Response(200, [tasks |-> l]) : l \in PollListings}

\* The body the ce/task request of type() can get: only its type is read.
PlainRecord(k) == [id |-> k, type |-> "REPORT", componentKey |-> "projA"]
WaitTaskOutcomes(k) == ErrorOutcomes \cup {Response(200, [task |-> PlainRecord(k)])}

RECURSIVE ScanListing_AnyId(_, _, _)
\* The for loop without its test of the id
ScanListing_AnyId(st, listing, key) ==
    IF listing = <<>> THEN st
    ELSE ScanListing_AnyId(Head(listing).status, Tail(listing), key)

RECURSIVE ScanListing(_, _, _)
\* The for loop over the listing: status after it.
ScanListing(st, listing, key) ==
    IF listing = <<>> THEN st
    ELSE ScanListing(IF Head(listing).id # key THEN st ELSE Head(listing).status,
                     Tail(listing), key)

\* The timeout test without its look at the status
CheckTimeout_IgnoresStatus(st, wait, t) ==
    IF wait >= t THEN TIMEOUT ELSE st

\* The while condition ending the loop as soon as the task is not PENDING
Continues_WhilePending(st) == st = PENDING

\* The test that ends the loop iteration.
CheckTimeout(st, wait, t) ==
    IF wait >= t /\ st \notin Terminal THEN TIMEOUT ELSE st

\* The while condition.
Continues(st) == st \notin Terminal \cup {TIMEOUT}

\* What the listing says of task key, None when it does not list it.
Reported(listing, key) ==
    IF \E n \in DOMAIN listing : listing[n].id = key
    THEN Some(listing[CHOOSE n \in DOMAIN listing : listing[n].id = key].status)
    ELSE None

\* The statuses the listing gives for the tasks that are not task key
OtherStatuses(listing, key) ==
    {listing[n].status : n \in {i \in DOMAIN listing : listing[i].id # key}}

WaitDone(exc, val) ==
    /\ pc' = "done"
    /\ last' = [op |-> "wait_for_completion", task |-> 1, before |-> None,
                reqs |-> <<>>, exc |-> exc, val |-> val, arg |-> None]

\* wait_for_completion up to its loop.
WaitStart ==
    \E t \in (0 - 1) .. MaxTimeout, o \in WaitTaskOutcomes(tasks[1].key) :
        LET ty == Type(tasks[1].key, tasks[1].json, o)
            v == EndpointVersion(endpoint)
        IN  /\ pc = "idle"
            /\ timeout' = t
            /\ wait_time' = 0
            /\ sleep_time' = InitialSleep
            /\ tasks' = [tasks EXCEPT ![1].json = ty.json]
            /\ stats' = [stats EXCEPT ![1].fetches = @ + Len(ty.reqs),
                                      ![1].loads = @ + ty.loaded]
            /\ status' = PENDING
            /\ IF ty.exc # NoExc
               THEN WaitDone(ty.exc, None) /\ UNCHANGED params
               ELSE IF v.exc # NoExc
               THEN WaitDone(v.exc, None) /\ params' = [status |-> Join(STATUSES), type |-> ty.val]
               ELSE /\ params' = PollParams(tasks[1].key, ty.val, v.val[1])
                    /\ pc' = "loop"
                    /\ UNCHANGED last
            /\ UNCHANGED <<envVars, endpoint, polls>>

\* One iteration of the loop, and the return when it is the last.
WaitPoll ==
    /\ pc = "loop"
    /\ \E o \in PollOutcomes :
           LET resp == EnvGet(o)
               ok == resp.exc = NoExc /\ "tasks" \in DOMAIN resp.val[1].json
               listing == resp.val[1].json.tasks
               rep == IF ok THEN Reported(listing, tasks[1].key) ELSE None
               st == CheckTimeout(ScanListing(status, listing, tasks[1].key),
                                  wait_time', timeout)
           IN  /\ wait_time' = wait_time + sleep_time
               /\ sleep_time' = sleep_time * 2
               /\ polls' = [count |-> polls.count + 1,
                            first |-> IF polls.count = 0 THEN rep ELSE polls.first,
                            seen |-> rep,
                            terminal |-> polls.terminal
                                         \/ (rep # None /\ rep[1] \in Terminal),
                            prev |-> status,
                            others |-> IF ok THEN OtherStatuses(listing, tasks[1].key)
                                       ELSE {}]
               /\ IF resp.exc # NoExc THEN WaitDone(resp.exc, None) /\ UNCHANGED status
                  ELSE IF ~ok THEN WaitDone("KeyError", None) /\ UNCHANGED status
                  ELSE /\ status' = st
                       /\ IF Continues(st)
                          THEN pc' = "loop" /\ UNCHANGED last
                          ELSE WaitDone(NoExc, Some(st))
               /\ UNCHANGED <<envVars, taskVars, endpoint, timeout, params>>

InitWait ==
    /\ \E k \in TaskIds : \E data \in {None, Some(PlainRecord(k))} :
          /\ tasks = <<NewTask(k, data)>>
          /\ stats = <<NewStats(data)>>
    /\ endpoint \in Endpoints
    /\ pc = "idle"
    /\ timeout = 0
    /\ wait_time = 0
    /\ sleep_time = 0
    /\ params = EmptyDict
    /\ status = PENDING
    /\ polls = NoPolls
    /\ last = NoCall
    /\ EnvIdle

NextWait ==
    \/ WaitStart
    \/ WaitPoll

SpecWait == InitWait /\ [][NextWait]_vars

----
(* env.py: the audit checks, each a function of a settings or sysinfo      *)
(* snapshot.                                                               *)

Returns(v) == [exc |-> NoExc, val |-> v]
Raises(e) == [exc |-> e, val |-> None]

\* audit_problem is not part of the sources at hand: a finding is the
\* record of what its constructor is given.
PbType == {"SECURITY", "CONFIGURATION", "PERFORMANCE", "OPERATIONS", "BAD_PRACTICE",
           "GOVERNANCE"}
PbSeverity == {"LOW", "MEDIUM", "HIGH", "CRITICAL"}
Problem(type, severity, msg) == [type |-> type, severity |-> severity, msg |-> msg]

\* The decimal digits of a text, as int() reads them.
DigitVal(c) ==
    CASE c = "0" -> 0 [] c = "1" -> 1 [] c = "2" -> 2 [] c = "3" -> 3 [] c = "4" -> 4
      [] c = "5" -> 5 [] c = "6" -> 6 [] c = "7" -> 7 [] c = "8" -> 8 [] c = "9" -> 9
Digits == {"0", "1", "2", "3", "4", "5", "6", "7", "8", "9"}
DigitOf(n) == CHOOSE c \in Digits : DigitVal(c) = n

\* The value of a non-empty sequence of digits: Val[n] is the one of its
\* first n digits.
DecimalVal(s) ==
    LET Val[n \in 0..Len(s)] == IF n = 0 THEN 0 ELSE Val[n - 1] * 10 + DigitVal(s[n])
    IN  Val[Len(s)]

\* A text is a sequence of characters. IsInt(s): int(s) does not raise.
IsInt(s) ==
    LET body == IF s # <<>> /\ Head(s) = "-" THEN Tail(s) ELSE s
    IN  body # <<>> /\ \A n \in DOMAIN body : body[n] \in Digits

\* int(s), for a text that IsInt
IntOf(s) == IF Head(s) = "-" THEN 0 - DecimalVal(Tail(s)) ELSE DecimalVal(s)

RECURSIVE Str(_)
\* str(n): the text of integer n
Str(n) ==
    IF n < 0 THEN <<"-">> \o Str(0 - n)
    ELSE IF n < 10 THEN <<DigitOf(n)>>
    ELSE Str(n \div 10) \o <<DigitOf(n % 10)>>

\* template.format(args): a text is kept as its template and the texts put in
\* it; a setting key is the one character sequence <<key>>.
Format(template, args) == [text |-> template, args |-> args]

\* The range check with both bounds excluded
AuditSettingRange_Exclusive(settings, key, min_val, max_val, severity) ==
    IF key \notin DOMAIN settings THEN Raises("KeyError")
    ELSE IF ~IsInt(settings[key]) THEN Raises("ValueError")
    ELSE LET value == IntOf(settings[key])
         IN  IF value > min_val /\ value < max_val
             THEN Returns(<<>>)
             ELSE Returns(<<Problem("CONFIGURATION", severity,
                    Format("Setting {} value {} is outside recommended range [{}-{}]",
                           <<<<key>>, Str(value), Str(min_val), Str(max_val)>>))>>)

\* __audit_setting_range__
AuditSettingRange(settings, key, min_val, max_val, severity) ==
    IF key \notin DOMAIN settings THEN Raises("KeyError")
    ELSE IF ~IsInt(settings[key]) THEN Raises("ValueError")
    ELSE LET value == IntOf(settings[key])
         IN  IF value >= min_val /\ value <= max_val
             THEN Returns(<<>>)
             ELSE Returns(<<Problem("CONFIGURATION", severity,
                    Format("Setting {} value {} is outside recommended range [{}-{}]",
                           <<<<key>>, Str(value), Str(min_val), Str(max_val)>>))>>)

\* __check_ce_background_tasks__. The failure rate is the quotient
\* ce_error / (ce_success + ce_error); it is above 0.01 exactly when
\* 100 * ce_error > ce_success + ce_error.
CheckCeBackgroundTasks(sysinfo) ==
    IF "Compute Engine Tasks" \notin DOMAIN sysinfo THEN Raises("KeyError")
    ELSE LET ce_tasks == sysinfo["Compute Engine Tasks"]
             ce_workers == ce_tasks["Worker Count"]
             ce_success == ce_tasks["Processed With Success"]
             ce_error == ce_tasks["Processed With Error"]
             ce_pending == ce_tasks["Pending"]
             failures ==
                 IF ce_error > 10 /\ 100 * ce_error > ce_success + ce_error
                 THEN <<Problem("OPERATIONS", "HIGH",
                          Format("Background task failure rate ({}%) is high, verify failed background tasks",
                                 <<Str(ce_error), Str(ce_success + ce_error)>>))>>
                 ELSE <<>>
             pending ==
                 IF ce_pending > 100
                 THEN <<Problem("PERFORMANCE", "CRITICAL",
                          Format("Number of pending background tasks ({}) is very high, verify CE dimensioning",
                                 <<Str(ce_pending)>>))>>
                 ELSE IF ce_pending > 20 /\ ce_pending > 10 * ce_workers
                 THEN <<>>    \* the Problem of this branch is built and not appended
                 ELSE <<>>
         IN  IF ce_success + ce_error = 0 THEN Raises("ZeroDivisionError")
             ELSE Returns(failures \o pending)

\* What the call util.logger.util(...) does. utilities.py is not among the
\* sources; every other call on util.logger (debug, info, warning, error,
\* with %-style arguments) is a method of logging.Logger, which has no
\* method util: the call logs if util.logger is something that has one, and
\* raises AttributeError if it is a logging.Logger.
LoggerUtilOutcomes == {NoExc, "AttributeError"}

\* The plugin keys in the order sort_keys puts them.
PluginKeys == <<"branch", "java">>

\* json.dumps(plugins, sort_keys=True, ...): the items of the dict in key order
Dumps(plugins) ==
    LET items == [n \in DOMAIN PluginKeys |-> <<PluginKeys[n], DictGet(plugins, PluginKeys[n])>>]
    IN  SelectSeq(items, LAMBDA it : it[2] # None)

RECURSIVE AuditNodes(_, _, _, _)
\* The for loop of __audit_dce_settings__ over the app nodes.
AuditNodes(nodes, ref_name, ref_version, ref_plugins) ==
    IF nodes = <<>> THEN <<>>
    ELSE LET node == Head(nodes)
             version == IF node["System"]["Version"] # ref_version
                        THEN <<Problem("OPERATIONS", "CRITICAL",
                                 Format("App nodes {} and {} do not run the same SonarQube versions, this must be corrected ASAP",
                                        <<ref_name, node["Name"]>>))>>
                        ELSE <<>>
             plugins == IF Dumps(node["Plugins"]) # ref_plugins
                        THEN <<Problem("OPERATIONS", "CRITICAL",
                                 Format("Some plugins on app nodes {} and {} are different, this must be corrected ASAP",
                                        <<ref_name, node["Name"]>>))>>
                        ELSE <<>>
             official == IF ~node["System"]["Official Distribution"]
                         THEN <<Problem("OPERATIONS", "CRITICAL",
                                  Format("Node {} does not run an official distribution of SonarQube",
                                         <<node["Name"]>>))>>
                         ELSE <<>>
             health == IF node["Health"] # "GREEN"
                       THEN <<Problem("OPERATIONS", "HIGH",
                                Format("Node {} health is {}, it should be GREEN",
                                       <<node["Name"], node["Health"]>>))>>
                       ELSE <<>>
         IN  version \o plugins \o official \o health
                 \o AuditNodes(Tail(nodes), ref_name, ref_version, ref_plugins)

\* __audit_dce_settings__, lg being what its first statement does.
AuditDceSettings(sysinfo, lg) ==
    LET statistics == DictGet(sysinfo, "Statistics")
        appnodes == sysinfo["Application Nodes"]
    IN  IF lg # NoExc THEN Raises(lg)
        ELSE IF statistics = None THEN Returns(<<>>)
        ELSE IF DictGet(statistics[1], "edition") # Some("datacenter") THEN Returns(<<>>)
        ELSE IF "Application Nodes" \notin DOMAIN sysinfo THEN Raises("KeyError")
        ELSE IF appnodes = <<>> THEN Raises("IndexError")
        ELSE Returns(AuditNodes(appnodes, appnodes[1]["Name"],
                                appnodes[1]["System"]["Version"],
                                Dumps(appnodes[1]["Plugins"])))

\* s.upper() of the last character of an -Xmx token
Upper(c) == CASE c = "k" -> "K" [] c = "m" -> "M" [] c = "g" -> "G" [] OTHER -> c

Xmx == <<"-", "X", "m", "x">>

RECURSIVE GetMemory(_)
\* __get_memory__ on the tokens setting.split(' ') gives, each token a text
GetMemory(tokens) ==
    IF tokens = <<>> THEN Returns(None)
    ELSE LET s == Head(tokens)
             digits == SubSeq(s, 5, Len(s) - 1)
             unit == Upper(s[Len(s)])
         IN  IF Len(s) < 4 \/ SubSeq(s, 1, 4) # Xmx THEN GetMemory(Tail(tokens))
             ELSE IF ~IsInt(digits) THEN Raises("ValueError")
             ELSE IF unit = "M" THEN Returns(Some(IntOf(digits)))
             ELSE IF unit = "G" THEN Returns(Some(IntOf(digits) * 1024))
             ELSE IF unit = "K" THEN Returns(Some(IntOf(digits) \div 1024))
             ELSE GetMemory(Tail(tokens))

\* __get_store_size__ on the tokens setting.split(' ') gives
GetStoreSize(tokens) ==
    IF Len(tokens) # 2 THEN Raises("ValueError")
    ELSE LET val == tokens[1]
             unit == tokens[2]
         IN  IF unit = <<"M", "B">>
             THEN IF IsInt(val) THEN Returns(Some(IntOf(val))) ELSE Raises("ValueError")
             ELSE IF unit = <<"G", "B">>
             THEN IF IsInt(val) THEN Returns(Some(IntOf(val) * 1024)) ELSE Raises("ValueError")
             ELSE Returns(None)

\* __check_web_settings__
CheckWebSettings(sysinfo) ==
    IF "Settings" \notin DOMAIN sysinfo
       \/ "sonar.web.javaOpts" \notin DOMAIN sysinfo["Settings"] THEN Raises("KeyError")
    ELSE LET web_ram == GetMemory(sysinfo["Settings"]["sonar.web.javaOpts"])
         IN  IF web_ram.exc # NoExc THEN web_ram
             ELSE IF web_ram.val = None THEN Raises("TypeError")
             ELSE IF web_ram.val[1] < 1024 \/ web_ram.val[1] > 2048
             THEN Returns(<<Problem("PERFORMANCE", "HIGH",
                     Format("sonar.web.javaOpts -Xmx memory setting value is {} MB, not in recommended range [1024-2048]",
                            <<Str(web_ram.val[1])>>))>>)
             ELSE Returns(<<>>)

\* __audit_ce_settings__. Its first finding is built with pb.Type.HIGH, and
\* pb.Type has no member HIGH.
AuditCeSettings(sysinfo) ==
    IF "Settings" \notin DOMAIN sysinfo
       \/ "sonar.ce.javaOpts" \notin DOMAIN sysinfo["Settings"]
       \/ "Compute Engine Tasks" \notin DOMAIN sysinfo THEN Raises("KeyError")
    ELSE LET ce_ram == GetMemory(sysinfo["Settings"]["sonar.ce.javaOpts"])
             ce_workers == sysinfo["Compute Engine Tasks"]["Worker Count"]
             workers == IF ce_workers > 4
                        THEN <<Problem("PERFORMANCE", "HIGH",
                                 Format("{} CE workers configured, more than the max 4 recommended",
                                        <<Str(ce_workers)>>))>>
                        ELSE <<>>
         IN  IF ce_ram.exc # NoExc THEN ce_ram
             ELSE IF ce_workers > 4 /\ "HIGH" \notin PbType THEN Raises("AttributeError")
             ELSE IF ce_ram.val = None THEN Raises("TypeError")
             ELSE IF ce_ram.val[1] < 512 * ce_workers \/ ce_ram.val[1] > 2048 * ce_workers
             THEN Returns(workers \o <<Problem("PERFORMANCE", "HIGH",
                     Format("sonar.ce.javaOpts -Xmx memory setting value is {} MB, not in recommended range ([512-2048] x {} workers)",
                            <<Str(ce_ram.val[1]), Str(ce_workers)>>))>>)
             ELSE Returns(workers)

\* __audit_es_settings__
AuditEsSettings(sysinfo) ==
    IF "Settings" \notin DOMAIN sysinfo
       \/ "sonar.search.javaOpts" \notin DOMAIN sysinfo["Settings"] THEN Raises("KeyError")
    ELSE LET es_ram == GetMemory(sysinfo["Settings"]["sonar.search.javaOpts"])
             index_size == GetStoreSize(sysinfo["Search State"]["Store Size"])
         IN  IF es_ram.exc # NoExc THEN es_ram
             ELSE IF "Search State" \notin DOMAIN sysinfo
                     \/ "Store Size" \notin DOMAIN sysinfo["Search State"] THEN Raises("KeyError")
             ELSE IF index_size.exc # NoExc THEN index_size
             ELSE IF es_ram.val = None \/ index_size.val = None THEN Raises("TypeError")
             ELSE IF es_ram.val[1] < 2 * index_size.val[1]
                     /\ es_ram.val[1] < index_size.val[1] + 1000
             THEN Returns(<<Problem("PERFORMANCE", "CRITICAL",
                     Format("sonar.search.javaOpts -Xmx memory setting value is {} MB,too low for index size of {} MB",
                            <<Str(es_ram.val[1]), Str(index_size.val[1])>>))>>)
             ELSE Returns(<<>>)

\* A Python value that is an int or a list, with its type.
PyInt(n) == [t |-> "int", v |-> n]
PyList(l) == [t |-> "list", v |-> l]

\* The result of a check that returns a list, with its type.
AsList(r) == IF r.exc = NoExc THEN Returns(PyList(r.val)) ELSE r

\* a += b: the sum of two ints, the concatenation of two lists, and
\* TypeError for an int and a list.
Iadd(a, b) ==
    IF a.t # b.t THEN Raises("TypeError")
    ELSE IF a.t = "int" THEN Returns(PyInt(a.v + b.v))
    ELSE Returns(PyList(a.v \o b.v))

RECURSIVE AddAll(_, _)
\* The statements acc += call1; acc += call2; ... in order, calls being the
\* results of the calls: the first exception ends them.
AddAll(acc, calls) ==
    IF acc.exc # NoExc \/ calls = <<>> THEN acc
    ELSE IF Head(calls).exc # NoExc THEN Head(calls)
    ELSE AddAll(Iadd(acc.val, Head(calls).val), Tail(calls))

\* The checks audit_sysinfo runs, in call order
SysinfoChecks(sysinfo, lg) ==
    <<CheckWebSettings(sysinfo), AuditCeSettings(sysinfo), CheckCeBackgroundTasks(sysinfo),
      AuditEsSettings(sysinfo), AuditDceSettings(sysinfo, lg)>>

\* audit_sysinfo: issues = 0, then issues += each check
AuditSysinfo(sysinfo, lg) ==
    LET checks == SysinfoChecks(sysinfo, lg)
    IN  AddAll(Returns(PyInt(0)), [n \in DOMAIN checks |-> AsList(checks[n])])

RECURSIVE JoinTexts(_)
\* ','.join(values)
JoinTexts(values) ==
    IF values = <<>> THEN <<>>
    ELSE IF Len(values) = 1 THEN values[1]
    ELSE values[1] \o <<",">> \o JoinTexts(Tail(values))

\* The dict Environment.audit builds from json_s['settings']: the value of
\* a key is the one of its last entry.
SettingsOf(entries) ==
    LET keys == {entries[n].key : n \in DOMAIN entries}
        at(k) == entries[CHOOSE n \in DOMAIN entries :
                            /\ entries[n].key = k
                            /\ \A m \in DOMAIN entries : entries[m].key = k => m <= n]
    IN  [k \in keys |-> IF "value" \in DOMAIN at(k) THEN at(k).value
                        ELSE JoinTexts(at(k).values)]

\* __check_setting_value__: a count, 0 or 1
CheckSettingValue(settings, key, value) ==
    LET s == IF key \in DOMAIN settings THEN settings[key] ELSE <<>>
    IN  IF s = value THEN 0 ELSE 1

\* __audit_setting_defined__
AuditSettingDefined(settings, key, severity) ==
    IF key \in DOMAIN settings /\ settings[key] # <<>>
    THEN Returns(<<>>)
    ELSE Returns(<<Problem("CONFIGURATION", severity,
                     Format("Setting {} is not set, although it should", <<<<key>>>>))>>)

\* The call __audit_maintainability_rating_grid__(grid, severity) of
\* Environment.audit: the function takes one argument.
AuditGridCall(settings) ==
    IF "sonar.technicalDebt.ratingGrid" \notin DOMAIN settings THEN Raises("KeyError")
    ELSE Raises("TypeError")

\* The range checks of Environment.audit that follow the version test
RangeChecks(settings) ==
    <<AuditSettingRange(settings, "sonar.dbcleaner.daysBeforeDeletingClosedIssues",
                        10, 60, "MEDIUM"),
      AuditSettingRange(settings, "sonar.dbcleaner.hoursBeforeKeepingOnlyOneSnapshotByDay",
                        12, 240, "MEDIUM"),
      AuditSettingRange(settings, "sonar.dbcleaner.weeksBeforeKeepingOnlyOneSnapshotByWeek",
                        2, 12, "MEDIUM"),
      AuditSettingRange(settings, "sonar.dbcleaner.weeksBeforeKeepingOnlyOneSnapshotByMonth",
                        26, 104, "MEDIUM"),
      AuditSettingRange(settings, "sonar.dbcleaner.weeksBeforeDeletingAllSnapshots",
                        104, 260, "MEDIUM")>>

\* Environment.audit on the Environment self, o1 and o2 being what the
\* settings/values and the server/version requests come back with: the
\* Environment afterwards, the requests made, the exception raised or the
\* value returned. Its statements after the developmentCost check (the
\* project visibility, sysinfo, admin password and permission audits) run
\* only when no earlier statement raised, which the first += of a list to
\* the count of the exact-value checks always does.
Audit(self, o1, o2) ==
    LET req == [api |-> "settings/values", params |-> None]
        resp == EnvGet(o1)
        settings == SettingsOf(resp.val[1].json.settings)
        count == CheckSettingValue(settings, "sonar.forceAuthentication", <<"t", "r", "u", "e">>)
                 + CheckSettingValue(settings, "sonar.cpd.cross_project", <<"f", "a", "l", "s", "e">>)
                 + CheckSettingValue(settings, "sonar.global.exclusions", <<>>)
        ver == GetVersion(self, o2)
        short == IF TupleGE(ver.val[1], <<8, 0, 0>>) THEN <<>>
                 ELSE <<AuditSettingRange(settings,
                          "sonar.dbcleaner.daysBeforeDeletingInactiveShortLivingBranches",
                          10, 60, "MEDIUM")>>
        lists == short \o RangeChecks(settings)
                   \o <<AuditSettingDefined(settings, "sonar.core.serverBaseURL", "HIGH")>>
        calls == [n \in DOMAIN lists |-> AsList(lists[n])]
                   \o <<AuditGridCall(settings),
                        AsList(AuditSettingRange(settings, "sonar.technicalDebt.developmentCost",
                                                 20, 30, "MEDIUM"))>>
        r == AddAll(Returns(PyInt(count)), calls)
    IN  IF resp.exc # NoExc
        THEN [self |-> self, reqs |-> <<req>>, exc |-> resp.exc, val |-> None]
        ELSE IF "settings" \notin DOMAIN resp.val[1].json
        THEN [self |-> self, reqs |-> <<req>>, exc |-> "KeyError", val |-> None]
        ELSE IF ver.exc # NoExc
        THEN [self |-> ver.self, reqs |-> <<req>> \o ver.reqs, exc |-> ver.exc, val |-> None]
        ELSE [self |-> ver.self, reqs |-> <<req>> \o ver.reqs, exc |-> r.exc, val |-> r.val]

----
(* tasks.py: Task.audit. A text is the sequence of its characters.        *)

\* The first index at or after i where sep begins in s, 0 when there is none
Find(s, sep, i) ==
    LET found == {n \in i..(Len(s) - Len(sep) + 1) : SubSeq(s, n, n + Len(sep) - 1) = sep}
    IN  IF found = {} THEN 0 ELSE CHOOSE n \in found : \A m \in found : n <= m

\* s.split(sep, maxsplit); maxsplit -1 is no limit. Parts[i, m] is the split
\* of s from index i on with m splits left; t is the value of s.
Split(s, sep, maxsplit) ==
    CHOOSE r \in {LET Parts[i \in 1..(Len(t) + 1), m \in (0 - 1)..Len(t)] ==
                          LET j == Find(t, sep, i)
                          IN  IF m = 0 \/ j = 0 THEN <<SubSeq(t, i, Len(t))>>
                              ELSE <<SubSeq(t, i, j - 1)>>
                                       \o Parts[j + Len(sep), IF m > 0 THEN m - 1 ELSE m]
                  IN  Parts[1, maxsplit] : t \in {s}} : TRUE

Whitespace == {" ", "\n", "\t"}

\* s.strip(): s from its first to its last character that is no whitespace
Strip(s) ==
    CHOOSE r \in {LET kept == {n \in DOMAIN t : t[n] \notin Whitespace}
                  IN  IF kept = {} THEN <<>>
                      ELSE SubSeq(t, CHOOSE n \in kept : \A m \in kept : n <= m,
                                     CHOOSE n \in kept : \A m \in kept : n >= m)
                  : t \in {s}} : TRUE

\* s.startswith(prefix)
StartsWith(s, prefix) == Len(s) >= Len(prefix) /\ SubSeq(s, 1, Len(prefix)) = prefix

\* The characters \w matches, among those of the texts at hand
WordChars ==
    {"a", "b", "c", "d", "e", "f", "g", "h", "i", "j", "k", "l", "m", "n", "o", "p", "q",
     "r", "s", "t", "u", "v", "w", "x", "y", "z", "_"} \cup Digits

\* re.search of SUSPICIOUS_EXCLUSIONS[0], \*\*/[^\/]+/\*\*
SearchDirectory(s) ==
    \E t \in {s} :
        \E i \in 1..Len(t), k \in 1..Len(t) :
            /\ k >= i + 4
            /\ k + 2 <= Len(t)
            /\ SubSeq(t, i, i + 2) = <<"*", "*", "/">>
            /\ \A n \in (i + 3)..(k - 1) : t[n] # "/"
            /\ SubSeq(t, k, k + 2) = <<"/", "*", "*">>

\* re.search of SUSPICIOUS_EXCLUSIONS[1], \*\*\/\*\.\w+
SearchExtension(s) ==
    \E t \in {s} :
        \E i \in 1..Len(t) :
            /\ i + 5 <= Len(t)
            /\ SubSeq(t, i, i + 4) = <<"*", "*", "/", "*", ".">>
            /\ t[i + 5] \in WordChars

\* The matches of a pattern, one per regular expression of SUSPICIOUS_EXCLUSIONS
\* that finds something in it, in the order of the tuple
Matches(excl) ==
    (IF SearchDirectory(excl) THEN <<1>> ELSE <<>>)
        \o (IF SearchExtension(excl) THEN <<2>> ELSE <<>>)

\* The rule of the finding: audit_rules is not among the sources, its type,
\* severity and message are kept as they are named.
SuspiciousExclusionRule ==
    [type |-> "rule.type", severity |-> "rule.severity", msg |-> "rule.msg"]

ExclusionKeys == {<<"s", "o", "n", "a", "r", ".", "e", "x", "c", "l", "u", "s", "i", "o", "n", "s">>, <<"s", "o", "n", "a", "r", ".", "g", "l", "o", "b", "a", "l", ".", "e", "x", "c", "l", "u", "s", "i", "o", "n", "s">>}

RECURSIVE AuditExclusions(_, _, _)
\* The for excl loop: the findings of the patterns excls
AuditExclusions(excls, component, self) ==
    IF excls = <<>> THEN <<>>
    ELSE (CHOOSE found \in
              {[n \in DOMAIN Matches(excl) |->
                   Problem(SuspiciousExclusionRule.type, SuspiciousExclusionRule.severity,
                           Format(SuspiciousExclusionRule.msg, <<component, excl>>))
                       @@ [concerned_object |-> self]] : excl \in {Head(excls)}} : TRUE)
             \o AuditExclusions(Tail(excls), component, self)

\* [x.strip() for x in val.split(',')]
ExclusionsOf(val) ==
    CHOOSE r \in {[n \in DOMAIN xs |-> Strip(xs[n])] : xs \in {Split(val, <<",">>, 0 - 1)}} : TRUE

RECURSIVE AuditLines(_, _, _, _)
\* The for line loop over the lines of the scanner context that are left,
\* problems being the findings so far
AuditLines(lines, problems, component, self) ==
    IF lines = <<>> THEN Returns(problems)
    ELSE LET line == Head(lines)
             parts == Split(line, <<"=">>, 2)
         IN  IF ~StartsWith(line, <<"s", "o", "n", "a", "r">>)
             THEN AuditLines(Tail(lines), problems, component, self)
             ELSE IF Len(parts) # 2 THEN Raises("ValueError")
             ELSE IF parts[1] \notin ExclusionKeys
             THEN AuditLines(Tail(lines), problems, component, self)
             ELSE AuditLines(Tail(lines),
                             problems \o (CHOOSE found \in
                                             {AuditExclusions(excls, component, self) :
                                                  excls \in {ExclusionsOf(parts[2])}} : TRUE),
                             component, self)

\* Task.audit: o1 answers the request of has_scanner_context, o2 the one of
\* scanner_context.
TaskAudit(key, j, o1, o2, audit_settings) ==
    LET h == HasScannerContext(key, j, o1)
        c == ScannerContext(key, h.json, o1, o2)
        component == Component(key, c.json, o1).val
        r == CHOOSE res \in {AuditLines(lines, <<>>, <<component>>, key) :
                                 lines \in {Split(c.val[1], <<"\n", " ", " ", "-", " ">>, 0 - 1)}} : TRUE
    IN  IF "audit.projects.exclusions" \notin DOMAIN audit_settings
        THEN Outcome(j, <<>>, 0, 0, "KeyError", None)
        ELSE IF ~audit_settings["audit.projects.exclusions"]
        THEN Outcome(j, <<>>, 0, 0, NoExc, <<>>)
        ELSE IF h.exc # NoExc THEN h
        ELSE IF ~h.val THEN [h EXCEPT !.val = <<>>]
        ELSE IF c.exc # NoExc
        THEN Outcome(c.json, h.reqs \o c.reqs, h.loaded + c.loaded,
                     h.reloaded + c.reloaded, c.exc, None)
        ELSE IF c.val = None
        THEN Outcome(c.json, h.reqs \o c.reqs, h.loaded + c.loaded,
                     h.reloaded + c.reloaded, "AttributeError", None)
        ELSE Outcome(c.json, h.reqs \o c.reqs, h.loaded + c.loaded,
                     h.reloaded + c.reloaded, r.exc, r.val)

----
(* The audit checks as operations: each call takes a snapshot and leaves   *)
(* what it returned or raised in last.                                     *)

MaxSetting == 11
RangeKey == "sonar.dbcleaner.daysBeforeDeletingClosedIssues"

AuditCommit(op, arg, r) ==
    /\ last' = [op |-> op, task |-> 0, before |-> None, reqs |-> <<>>,
                exc |-> r.exc, val |-> r.val, arg |-> arg]
    /\ UNCHANGED <<taskVars, envVars, waitVars>>

\* One audit call is followed from a fresh process to its return.
AuditSettingRangeCall ==
    /\ last = NoCall
    /\ \E settings \in {EmptyDict} \cup
                       {[k \in {RangeKey} |-> t] :
                           t \in {Str(n) : n \in (0 - 1) .. (MaxSetting + 1)}
                                  \cup {<<"1", "0", "d">>, <<>>}},
          min_val \in 0 .. MaxSetting, max_val \in 0 .. MaxSetting,
          severity \in {"MEDIUM", "HIGH"} :
           AuditCommit("__audit_setting_range__",
                       [settings |-> settings, key |-> RangeKey, min_val |-> min_val,
                        max_val |-> max_val, severity |-> severity],
                       AuditSettingRange(settings, RangeKey, min_val, max_val, severity))

\* The Compute Engine Tasks section of a sysinfo
CeTasks(workers, success, error, pending) ==
    [k \in {"Worker Count", "Processed With Success", "Processed With Error", "Pending"} |->
        CASE k = "Worker Count" -> workers
          [] k = "Processed With Success" -> success
          [] k = "Processed With Error" -> error
          [] k = "Pending" -> pending]

\* The sections at hand: counts on both sides of each threshold
CeTasksSections ==
    {CeTasks(w, s, e, p) : w \in {1, 2, 3, 5}, s \in {0, 89, 1088, 1089}, e \in {0, 10, 11},
                           p \in {0, 20, 21, 30, 31, 100, 101}}

CheckCeBackgroundTasksCall ==
    /\ last = NoCall
    /\ \E sysinfo \in {EmptyDict} \cup
                      {[k \in {"Compute Engine Tasks"} |-> c] : c \in CeTasksSections} :
           AuditCommit("__check_ce_background_tasks__", sysinfo,
                       CheckCeBackgroundTasks(sysinfo))

MaxNodes == 2
NodeNames == <<"app1", "app2", "app3">>

\* One entry of sysinfo['Application Nodes']
Node(name, version, official, plugins, health) ==
    [k \in {"Name", "System", "Plugins", "Health"} |->
        CASE k = "Name" -> name
          [] k = "System" -> [j \in {"Version", "Official Distribution"} |->
                                 IF j = "Version" THEN version ELSE official]
          [] k = "Plugins" -> plugins
          [] k = "Health" -> health]

NodesAt(n) ==
    {Node(NodeNames[n], v, o, p, h) :
        v \in {"8.9.1", "8.9.2"}, o \in BOOLEAN, h \in {"GREEN", "RED"},
        p \in {[k \in {"java"} |-> "6.15"], [k \in {"java", "branch"} |-> "6.15"]}}

AppNodes ==
    UNION {{l \in [1..n -> UNION {NodesAt(i) : i \in 1..n}] :
               \A i \in 1..n : l[i] \in NodesAt(i)} : n \in 0..MaxNodes}

\* The sysinfo snapshots of the cluster check: with or without statistics,
\* an edition, and app nodes.
DceSysinfos ==
    {EmptyDict, [k \in {"Statistics"} |-> EmptyDict]} \cup
    {[k \in {"Statistics"} |-> [edition |-> e]] : e \in {"enterprise", "datacenter"}} \cup
    {[k \in {"Statistics", "Application Nodes"} |->
         IF k = "Statistics" THEN [edition |-> e] ELSE l] :
       e \in {"enterprise", "datacenter"}, l \in AppNodes}

AuditDceSettingsCall ==
    /\ last = NoCall
    /\ \E sysinfo \in DceSysinfos, lg \in LoggerUtilOutcomes :
           AuditCommit("__audit_dce_settings__", sysinfo, AuditDceSettings(sysinfo, lg))

\* The text -Xmx<n><unit>
XmxToken(n, unit) == Xmx \o Str(n) \o <<unit>>
Xms == <<<<"-", "X", "m", "s", "1", "2", "8", "m">>>>


\* A whole sysinfo snapshot
Sysinfo(web, ce, es, store, tsk, dce) ==
    [k \in {"Settings", "Compute Engine Tasks", "Search State"} \cup DOMAIN dce |->
        CASE k = "Settings" ->
                 [j \in {"sonar.web.javaOpts", "sonar.ce.javaOpts", "sonar.search.javaOpts"} |->
                     CASE j = "sonar.web.javaOpts" -> web
                       [] j = "sonar.ce.javaOpts" -> ce
                       [] j = "sonar.search.javaOpts" -> es]
          [] k = "Compute Engine Tasks" -> tsk
          [] k = "Search State" -> [j \in {"Store Size"} |-> store]
          [] OTHER -> dce[k]]

Sysinfos ==
    {Sysinfo(web, ce, es, store, tsk, dce) :
        web \in {<<XmxToken(1024, "m")>> \o Xms, <<XmxToken(512, "m")>>, Xms},
        ce \in {Xms \o <<XmxToken(2, "G")>>, <<XmxToken(256, "m")>>},
        es \in {<<XmxToken(4096, "m")>>, <<XmxToken(1048576, "k")>>},
        store \in {<<Str(500), <<"M", "B">>>>, <<Str(3), <<"G", "B">>>>,
                   <<<<"1", ".", "5">>, <<"G", "B">>>>},
        tsk \in {CeTasks(w, 89, 0, p) : w \in {1, 5}, p \in {0, 101}},
        dce \in {d \in DceSysinfos : "Application Nodes" \in DOMAIN d =>
                    /\ Len(d["Application Nodes"]) = 2
                    /\ \A n \in 1..2 :
                          /\ d["Application Nodes"][n]["System"]["Official Distribution"]
                          /\ d["Application Nodes"][n]["Health"] = "GREEN"
                          /\ DOMAIN d["Application Nodes"][n]["Plugins"] = {"java"}}}

AuditSysinfoCall ==
    /\ last = NoCall
    /\ \E sysinfo \in Sysinfos, lg \in LoggerUtilOutcomes :
           AuditCommit("audit_sysinfo", [sysinfo |-> sysinfo, lg |-> lg],
                       AuditSysinfo(sysinfo, lg))

\* The keys of a settings/values answer and a recommended value of each
SettingKeys ==
    <<"sonar.forceAuthentication", "sonar.cpd.cross_project",
      "sonar.dbcleaner.daysBeforeDeletingInactiveShortLivingBranches",
      "sonar.dbcleaner.daysBeforeDeletingClosedIssues",
      "sonar.dbcleaner.hoursBeforeKeepingOnlyOneSnapshotByDay",
      "sonar.dbcleaner.weeksBeforeKeepingOnlyOneSnapshotByWeek",
      "sonar.dbcleaner.weeksBeforeKeepingOnlyOneSnapshotByMonth",
      "sonar.dbcleaner.weeksBeforeDeletingAllSnapshots",
      "sonar.core.serverBaseURL", "sonar.technicalDebt.ratingGrid",
      "sonar.technicalDebt.developmentCost">>
Recommended ==
    <<<<"t", "r", "u", "e">>, <<"f", "a", "l", "s", "e">>, Str(30), Str(30), Str(24), Str(4),
      Str(52), Str(260), <<"h", "t", "t", "p", "s", ":", "/", "/", "s", "q">>,
      <<"0", ".", "0", "4", ",", "0", ".", "0", "8", ",", "0", ".", "1", "8", ",", "0", ".", "4", "5">>,
      Str(30)>>

\* The settings lists of a settings/values answer: the recommended values,
\* or those with one entry replaced or left out, or with one entry more that
\* gives its value as a list.
SettingsLists ==
    LET base == [n \in DOMAIN SettingKeys |-> [key |-> SettingKeys[n], value |-> Recommended[n]]]
    IN  {base} \cup
        {[base EXCEPT ![n].value = v] : n \in 1..4, v \in {<<"f", "a", "l", "s", "e">>, Str(61), Str(9), <<>>}} \cup
        {SelectSeq(base, LAMBDA s : s.key # SettingKeys[n]) : n \in DOMAIN SettingKeys} \cup
        {base \o <<[key |-> "sonar.global.exclusions", values |-> vs]>> :
            vs \in {<<>>, <<<<"*", "*", "/", "g", "e", "n", "/", "*", "*">>>>, <<<<"*", "*", "/", "g", "e", "n", "/", "*", "*">>, <<"l", "i", "b", "/", "*", "*">>>>}}

\* Environment.audit
EnvAudit ==
    /\ last = NoCall
    /\ \E o1 \in ErrorOutcomes \cup {Response(200, [settings |-> l]) : l \in SettingsLists},
          o2 \in VersionOutcomes :
           LET r == Audit(context, o1, o2)
           IN  /\ context' = r.self
               /\ nreq' = nreq + Len(r.reqs)
               /\ last' = [op |-> "audit", task |-> 0, before |-> Some(context),
                           reqs |-> r.reqs, exc |-> r.exc, val |-> r.val,
                           arg |-> [settings |-> o1, version |-> o2]]
               /\ UNCHANGED <<taskVars, waitVars>>

\* The scanner contexts a server can hold: a heading and the properties of
\* the scan, one per line after "\n  - ".
ContextTexts ==
    {(<<"c", "t", "x", ":">> \o
        <<"\n", " ", " ", "-", " ", "s", "o", "n", "a", "r", ".", "e", "x", "c", "l", "u", "s", "i", "o", "n", "s", "=", "*", "*", "/", "t", "e", "s", "t", "/", "*", "*", ",", " ", "s", "r", "c", "/", "m", "a", "i", "n", "/", "*", "*", "\n", " ", " ", "-", " ", "s", "o", "n", "a", "r", ".", "h", "o", "s", "t", ".", "u", "r", "l", "=", "h", "t", "t", "p", ":", "/", "/", "s", "q">>),
     (<<"c", "t", "x", ":">> \o
        <<"\n", " ", " ", "-", " ", "s", "o", "n", "a", "r", ".", "e", "x", "c", "l", "u", "s", "i", "o", "n", "s", "=", "*", "*", "/", "a", "/", "*", "*", "/", "*", ".", "j", "a", "v", "a">>),
     (<<"c", "t", "x", ":">> \o
        <<"\n", " ", " ", "-", " ", "s", "o", "n", "a", "r", ".", "g", "l", "o", "b", "a", "l", ".", "e", "x", "c", "l", "u", "s", "i", "o", "n", "s", "=", "*", "*", "/", "*", ".", "j", "a", "v", "a", ",", "l", "i", "b", "/", "*", "*", "\n", " ", " ", "-", " ", "s", "o", "n", "a", "r", ".", "e", "x", "c", "l", "u", "s", "i", "o", "n", "s", "=", "s", "r", "c", "/", "m", "a", "i", "n", "/", "*", "*">>),
     (<<"c", "t", "x", ":">> \o
        <<"\n", " ", " ", "-", " ", "s", "o", "n", "a", "r", ".", "e", "x", "c", "l", "u", "s", "i", "o", "n", "s", "=", "s", "r", "c", "/", "m", "a", "i", "n", "/", "*", "*">>),
     (<<"c", "t", "x", ":">> \o
        <<"\n", " ", " ", "-", " ", "s", "o", "n", "a", "r", ".", "l", "i", "n", "k", "s", ".", "s", "c", "m", "=", "h", "t", "t", "p", ":", "/", "/", "x", "?", "a", "=", "b", "=", "c", "\n", " ", " ", "-", " ", "s", "o", "n", "a", "r", ".", "e", "x", "c", "l", "u", "s", "i", "o", "n", "s", "=", "*", "*", "/", "t", "e", "s", "t", "/", "*", "*">>),
     (<<"c", "t", "x", ":">> \o
        <<"\n", " ", " ", "-", " ", "j", "a", "v", "a", ".", "h", "o", "m", "e", "=", "/", "o", "p", "t", "/", "j", "d", "k">>),
     <<"c", "t", "x", ":">>}

\* The bodies of a Task whose audit is followed: without a scanner
\* context, or with one that is loaded or not
AuditRecords(k) ==
    {PlainRecord(k), PlainRecord(k) @@ [hasScannerContext |-> FALSE],
     PlainRecord(k) @@ [hasScannerContext |-> TRUE]} \cup
    {PlainRecord(k) @@ [hasScannerContext |-> TRUE, scannerContext |-> c] : c \in ContextTexts}

\* Task(key, data).audit(audit_settings) on a new Task
TaskAuditCall ==
    /\ last = NoCall
    /\ \E k \in {"T1"},
          audit_settings \in {EmptyDict} \cup
                             {[s \in {"audit.projects.exclusions"} |-> b] : b \in BOOLEAN} :
       \E data \in {None} \cup {Some(d) : d \in AuditRecords(k)} :
       \E o1 \in ErrorOutcomes \cup {Response(200, [task |-> d]) : d \in AuditRecords(k)} :
       \E o2 \in {Failure("ConnectionError"), o1} :
       \E r \in {TaskAudit(k, data, o1, o2, audit_settings)} :
               /\ tasks' = <<[key |-> k, json |-> r.json]>>
               /\ stats' = <<[NewStats(data) EXCEPT !.fetches = Len(r.reqs),
                                                    !.loads = r.loaded,
                                                    !.reloads = r.reloaded,
                                                    !.tcOnly = FALSE]>>
               /\ last' = [op |-> "Task.audit", task |-> 1, before |-> data, reqs |-> r.reqs,
                           exc |-> r.exc, val |-> r.val, arg |-> audit_settings]
               /\ UNCHANGED <<envVars, waitVars>>

InitAudit ==
    /\ TaskIdle
    /\ EnvIdle
    /\ WaitIdle
    /\ last = NoCall

NextAudit ==
    \/ AuditSettingRangeCall
    \/ CheckCeBackgroundTasksCall
    \/ AuditDceSettingsCall
    \/ AuditSysinfoCall
    \/ EnvAudit
    \/ TaskAuditCall

SpecAudit == InitAudit /\ [][NextAudit]_vars

----
(* Properties of the lazily loaded body, under SpecTask.                   *)

IsTypeOrComponent(op) == op \in {"type", "component"}

\* What type() or component() reads from body d.
FieldRead(op, d) == IF op = "type" THEN d.type ELSE d.componentKey

\* C4, as stated: over any sequence of type() and component() calls on a Task
\* at most one ce/task request is made, and none when the Task was made with
\* a body.
C4_AtMostOneFetch ==
    \A i \in DOMAIN tasks :
        stats[i].tcOnly =>
            /\ stats[i].fetches <= 1
            /\ (stats[i].seed # None => stats[i].fetches = 0)

\* C4, amended: over any sequence of type() and component() calls on a Task,
\* at most one ce/task request stores a body, and none is made when the Task
\* was made with a body; a call made while no body is cached makes exactly one
\* request, and when that request fails the body stays unloaded; a call made
\* once a body is cached makes no request, leaves the body alone and returns
\* the cached body's field.
C4_LazyLoadIdempotent ==
    \A i \in DOMAIN tasks :
        stats[i].tcOnly =>
            /\ stats[i].loads <= 1
            /\ (stats[i].seed # None => stats[i].fetches = 0)
            /\ (stats[i].loads = 0 /\ stats[i].seed = None => tasks[i].json = None)
            /\ (IsTypeOrComponent(last.op) /\ last.task = i =>
                   IF last.before = None
                   THEN /\ last.reqs = <<CeTaskRequest(tasks[i].key)>>
                        /\ (last.exc # NoExc => tasks[i].json = None)
                   ELSE /\ last.reqs = <<>>
                        /\ last.exc = NoExc
                        /\ tasks[i].json = last.before
                        /\ last.val = FieldRead(last.op, last.before[1]))

\* C4: a second type()/component() call is served from the body that the
\* first one fetched.
C4_Witness ==
    /\ IsTypeOrComponent(last.op)
    /\ last.before # None
    /\ stats[last.task].tcOnly
    /\ stats[last.task].seed = None
    /\ stats[last.task].fetches = 1
    /\ stats[last.task].loads = 1

\* C5, as stated: a cached body is replaced by a refetched one at most once
\* in the life of a Task, whatever the refetched body holds.
C5_RefetchedOnce == \A i \in DOMAIN tasks : stats[i].reloads <= 1

\* C6, as stated: error_details() on a Task whose cached body has no
\* errorStacktrace makes a ce/task request with
\* additionalFields=scannerContext,stacktrace before it returns.
C6_StacktraceRefetched ==
    (/\ last.op = "error_details"
     /\ last.before # None
     /\ "errorStacktrace" \notin DOMAIN last.before[1])
    => last.reqs = <<CeTaskRequest(tasks[last.task].key)>>

----
(* Properties of search, under SpecSearch.                                 *)

\* C10: search returns one Task per record of the listing, in the listing's
\* order, with the record's id as key and the record as cached body; the
\* Tasks keep that body, and type() and component() on them make no request
\* and return the record's field.
C10_SearchSeedsTasks ==
    /\ (last.op = "search" /\ last.exc = NoExc =>
            LET listing == last.arg[1].json.tasks IN
            /\ Len(tasks) = Len(listing)
            /\ \A n \in DOMAIN tasks :
                  /\ tasks[n].key = listing[n].id
                  /\ tasks[n].json = Some(listing[n]))
    /\ \A n \in DOMAIN tasks :
          /\ tasks[n].json = stats[n].seed
          /\ tasks[n].json # None
          /\ stats[n].fetches = 0
    /\ (IsTypeOrComponent(last.op) =>
            /\ last.reqs = <<>>
            /\ last.exc = NoExc
            /\ last.val = FieldRead(last.op, stats[last.task].seed[1]))

\* C10: component() was called on the second of two Tasks that a search
\* returned for two different records.
C10_Witness ==
    /\ last.op = "component"
    /\ last.task = 2
    /\ Len(tasks) = 2
    /\ tasks[1].key # tasks[2].key
    /\ tasks[1].json # tasks[2].json

----
(* Properties of the Environment, under SpecEnv.                           *)

IsRequestCall(op) == op \in {"get", "post", "delete"}

\* C7: get, post and delete each return the response object, without
\* raising, whatever its HTTP status, and raise the transport failure itself,
\* returning nothing, when the request fails; either way the Environment's
\* url, token and version fields are as they were before the call.
C7_ReturnOrReraise ==
    IsRequestCall(last.op) =>
        LET o == last.arg[1] IN
        /\ (o.exc = NoExc => last.exc = NoExc /\ last.val = Some(o))
        /\ (o.exc # NoExc => last.exc = o.exc /\ last.val = None)
        /\ context = last.before[1]

\* C7: a request call returned a response whose status is outside 2xx, on an
\* Environment whose url and token had been set.
C7_Witness ==
    /\ IsRequestCall(last.op)
    /\ last.exc = NoExc
    /\ last.val[1].status_code = 500
    /\ context.token # ""
    /\ context.major # None

\* C8, as stated: a get_version() call made when an earlier one has stored
\* the version sends no request (and so server/version is requested once).
C8_VersionCached ==
    (last.op = "get_version" /\ last.before[1].major # None) => last.reqs = <<>>

----
(* Properties of wait_for_completion, under SpecWait.                      *)

Returned == pc = "done" /\ last.op = "wait_for_completion"

\* C1, as stated: when no poll reports the task SUCCESS, FAILED or CANCELED,
\* wait_for_completion ends by returning TIMEOUT, at the first poll at which
\* the time slept so far is at least the timeout.
C1_TimeoutReturned ==
    (Returned /\ ~polls.terminal) =>
        /\ last.exc = NoExc
        /\ last.val = Some(TIMEOUT)
        /\ wait_time >= timeout
        /\ (polls.count = 1 \/ wait_time - (sleep_time \div 2) < timeout)

\* C2: when the first poll reports the task SUCCESS, FAILED or CANCELED,
\* wait_for_completion has returned that status after this one poll,
\* whatever the timeout.
C2_FirstPollTerminal ==
    (polls.first # None /\ polls.first[1] \in Terminal) =>
        /\ Returned
        /\ polls.count = 1
        /\ last.exc = NoExc
        /\ last.val = polls.first

\* C2: the first poll reported FAILED with the timeout already reached.
C2_Witness ==
    /\ polls.first = Some(FAILED)
    /\ Returned
    /\ wait_time >= timeout

\* C3, as stated: wait_for_completion never raises.
C3_NeverRaises == Returned => last.exc = NoExc

\* C9, as stated: the polls filter by the status enumeration and the task
\* type, and on a server of version 8.0.0 or later by the key component()
\* returns, on an older one by q.
C9_FilterByComponentKey ==
    pc = "loop" =>
        /\ params.status = Join(STATUSES)
        /\ params.type = tasks[1].json[1].type
        /\ IF TupleGE(endpoint[1].version[1], <<8, 0, 0>>)
           THEN /\ DOMAIN params = {"status", "type", "component"}
                /\ params.component = tasks[1].json[1].componentKey
           ELSE DOMAIN params = {"status", "type", "q"}

----
(* Properties of the audit checks, under SpecAudit.                        *)

IsRangeCall == last.op = "__audit_setting_range__" /\ last.exc = NoExc

\* C15: for every integer value of the setting and bounds min <= max,
\* __audit_setting_range__ returns no finding when min <= value <= max, the
\* bounds included, and otherwise exactly one CONFIGURATION finding of the
\* severity it was given, min - 1 and max + 1 included.
C15_RangeInclusive ==
    (IsRangeCall /\ last.arg.min_val <= last.arg.max_val) =>
        LET value == IntOf(last.arg.settings[last.arg.key])
            inside == last.arg.min_val <= value /\ value <= last.arg.max_val
        IN  /\ inside => last.val = <<>>
            /\ ~inside => /\ Len(last.val) = 1
                          /\ last.val[1].type = "CONFIGURATION"
                          /\ last.val[1].severity = last.arg.severity

\* A call on a bound: the value is max, below it lies min.
C15_Witness ==
    /\ IsRangeCall
    /\ last.arg.min_val < last.arg.max_val
    /\ IntOf(last.arg.settings[last.arg.key]) = last.arg.max_val
    /\ last.val = <<>>

\* The findings of type t among the findings fs
OfType(fs, t) == SelectSeq(fs, LAMBDA f : f.type = t)

\* C12: __check_ce_background_tasks__ returns a PERFORMANCE finding of
\* severity CRITICAL when more than 100 tasks are pending, one of severity
\* HIGH when the pending count is at most 100, above 20 and above ten times
\* the worker count, and no pending-count finding otherwise.
C12_PendingFinding ==
    (last.op = "__check_ce_background_tasks__" /\ last.exc = NoExc) =>
        LET ce_tasks == last.arg["Compute Engine Tasks"]
            ce_pending == ce_tasks["Pending"]
            found == OfType(last.val, "PERFORMANCE")
        IN  IF ce_pending > 100
            THEN Len(found) = 1 /\ found[1].severity = "CRITICAL"
            ELSE IF ce_pending > 20 /\ ce_pending > 10 * ce_tasks["Worker Count"]
            THEN Len(found) = 1 /\ found[1].severity = "HIGH"
            ELSE found = <<>>

IsDceCall == last.op = "__audit_dce_settings__"

\* The snapshot of the last call is of a datacenter edition with two app nodes.
TwoNodeCluster ==
    /\ IsDceCall
    /\ DOMAIN last.arg = {"Statistics", "Application Nodes"}
    /\ last.arg["Statistics"].edition = "datacenter"
    /\ Len(last.arg["Application Nodes"]) = 2

\* Both nodes are official distributions in health GREEN with the same plugins.
SoundNodes(nodes) ==
    /\ \A n \in DOMAIN nodes : nodes[n]["System"]["Official Distribution"]
                               /\ nodes[n]["Health"] = "GREEN"
    /\ nodes[1]["Plugins"] = nodes[2]["Plugins"]

\* C14: __audit_dce_settings__ on a datacenter sysinfo with two app nodes
\* returns no finding when both nodes have the same version and plugin set,
\* are official distributions and are GREEN; it returns exactly one finding,
\* CRITICAL and naming both nodes, when the two nodes differ in version
\* only; on an edition that is not datacenter it returns no finding.
C14_ClusterConsistency ==
    /\ (TwoNodeCluster /\ SoundNodes(last.arg["Application Nodes"])) =>
          LET nodes == last.arg["Application Nodes"]
          IN  /\ last.exc = NoExc
              /\ nodes[1]["System"]["Version"] = nodes[2]["System"]["Version"]
                    => last.val = <<>>
              /\ nodes[1]["System"]["Version"] # nodes[2]["System"]["Version"]
                    => /\ Len(last.val) = 1
                       /\ last.val[1].severity = "CRITICAL"
                       /\ last.val[1].msg.args = <<nodes[1]["Name"], nodes[2]["Name"]>>
    /\ (/\ IsDceCall
        /\ "Statistics" \in DOMAIN last.arg
        /\ DictGet(last.arg["Statistics"], "edition") = Some("enterprise")) =>
          last.exc = NoExc /\ last.val = <<>>

RECURSIVE Concat(_)
\* The findings of the checks that returned, in call order
Concat(rs) ==
    IF rs = <<>> THEN <<>>
    ELSE (IF Head(rs).exc = NoExc THEN Head(rs).val ELSE <<>>) \o Concat(Tail(rs))

\* The snapshot is one on which every check of audit_sysinfo returns.
ChecksReturn(sysinfo, lg) ==
    \A n \in DOMAIN SysinfoChecks(sysinfo, lg) : SysinfoChecks(sysinfo, lg)[n].exc = NoExc

\* The answers Environment.audit gets are well-formed: every setting it reads
\* is there, numeric where a number is read, and the version has four
\* numeric pieces.
SettingsWellFormed(o1, o2) ==
    /\ o1.exc = NoExc
    /\ "settings" \in DOMAIN o1.json
    /\ \A n \in DOMAIN SettingKeys : SettingKeys[n] \in DOMAIN SettingsOf(o1.json.settings)
    /\ \A n \in 3..8 : IsInt(SettingsOf(o1.json.settings)[SettingKeys[n]])
    /\ GetVersion(DefaultContext, o2).exc = NoExc

\* C11: audit_sysinfo (and Environment.audit, which calls it) returns the
\* list that is the concatenation, in call order, of the findings of every
\* check it runs, for every well-formed snapshot, whether no check, one or
\* several of them fire.
C11_FlatConcatenation ==
    /\ (last.op = "audit_sysinfo" /\ ChecksReturn(last.arg.sysinfo, last.arg.lg)) =>
          /\ last.exc = NoExc
          /\ last.val = PyList(Concat(SysinfoChecks(last.arg.sysinfo, last.arg.lg)))
    /\ (last.op = "audit" /\ SettingsWellFormed(last.arg.settings, last.arg.version)) =>
          /\ last.exc = NoExc
          /\ last.val.t = "list"

\* The exclusion patterns of the scanner context text: those of its
\* sonar.exclusions and sonar.global.exclusions lines, in order.
PatternsOf(text) ==
    LET lines == Split(text, <<"\n", " ", " ", "-", " ">>, 0 - 1)
        vals == SelectSeq(lines, LAMBDA l : \E key \in ExclusionKeys : StartsWith(l, key \o <<"=">>))
        Collect[n \in 0..Len(vals)] ==
            IF n = 0 THEN <<>>
            ELSE Collect[n - 1] \o ExclusionsOf(Split(vals[n], <<"=">>, 1)[2])
    IN  Collect[Len(vals)]

Suspicious(excl) == SearchDirectory(excl) \/ SearchExtension(excl)

\* The last call is an audit that went through the scanner context of the task.
AuditedContext ==
    /\ last.op = "Task.audit"
    /\ last.exc = NoExc
    /\ last.arg = [k \in {"audit.projects.exclusions"} |-> TRUE]
    /\ HasScannerContextOf(tasks[1].json[1])
    /\ "scannerContext" \in DOMAIN tasks[1].json[1]

\* C13: with exclusion auditing enabled and a scanner context, Task.audit
\* returns exactly one finding for each exclusion pattern of sonar.exclusions
\* or sonar.global.exclusions that one of the two suspicious expressions at
\* least matches, and none for the other patterns; a pattern that both
\* expressions match still gives one finding.
C13_OneFindingPerPattern ==
    AuditedContext =>
        LET suspicious == SelectSeq(PatternsOf(tasks[1].json[1].scannerContext), Suspicious)
        IN  /\ Len(last.val) = Len(suspicious)
            /\ \A n \in DOMAIN suspicious : last.val[n].msg.args[2] = suspicious[n]

----
(* Further properties of wait_for_completion, under SpecWait.              *)

RECURSIVE Pow2(_)
Pow2(n) == IF n = 0 THEN 1 ELSE 2 * Pow2(n - 1)

\* The smallest n >= 1 with 0.5 * (2^n - 1) >= T, T in units of 0.5
MinPolls(T) == CHOOSE n \in 1..(MaxTimeout + 2) :
                   /\ Pow2(n) - 1 >= T
                   /\ \A m \in 1..(n - 1) : Pow2(m) - 1 < T

\* C16, as stated: the sleep before poll k is 0.5 * 2^(k-1), so that the
\* time slept after k polls is 0.5 * (2^k - 1); a wait for a task that no
\* poll reports SUCCESS, FAILED or CANCELED makes as many polls as the
\* smallest n with 0.5 * (2^n - 1) >= T, one poll when T <= 0.5.
C16_BackoffPolls ==
    /\ pc # "idle" =>
          /\ wait_time = InitialSleep * (Pow2(polls.count) - 1)
          /\ sleep_time = InitialSleep * Pow2(polls.count)
    /\ (Returned /\ ~polls.terminal) => polls.count = MinPolls(timeout)

\* The task's own status after the last poll, before the timeout test
OwnStatus == IF polls.seen = None THEN polls.prev ELSE polls.seen[1]

\* C17: wait_for_completion returns SUCCESS, FAILED, CANCELED or TIMEOUT
\* only, and TIMEOUT only when the status seen at the last poll was none of
\* the first three: a task reported SUCCESS, FAILED or CANCELED by the poll at
\* which the time slept reaches the timeout is returned with that status.
C17_ReturnsFinalStatus ==
    (Returned /\ last.exc = NoExc) =>
        /\ last.val \in {Some(s) : s \in {SUCCESS, FAILED, CANCELED, TIMEOUT}}
        /\ last.val = Some(TIMEOUT) => (OwnStatus \notin Terminal /\ wait_time >= timeout)
        /\ OwnStatus \in Terminal => last.val = Some(OwnStatus)

\* C17: a later poll than the first reports SUCCESS when the timeout is reached.
C17_Witness ==
    /\ Returned
    /\ polls.count >= 2
    /\ wait_time >= timeout
    /\ wait_time - (sleep_time \div 2) < timeout
    /\ polls.seen = Some(SUCCESS)
    /\ last.val = Some(SUCCESS)

\* The last poll got a listing.
Listed == polls.count >= 1 /\ ~(Returned /\ last.exc # NoExc)

\* C18: the records of other tasks in a listing never change the tracked
\* status: after a poll the status is the one the listing gives for the task
\* itself, the previous one (PENDING at first) when the listing does not
\* hold the task, or TIMEOUT; and the loop goes on exactly when that status
\* is not SUCCESS, FAILED or CANCELED and the timeout is not reached.
C18_OtherRecordsIgnored ==
    /\ polls.count = 1 => polls.prev = PENDING
    /\ Listed =>
          /\ status = IF OwnStatus \notin Terminal /\ wait_time >= timeout
                      THEN TIMEOUT ELSE OwnStatus
          /\ pc = "loop" <=> (OwnStatus \notin Terminal /\ wait_time < timeout)

\* C18: the listing holds another task as SUCCESS and not the task itself,
\* and the wait goes on.
C18_Witness ==
    /\ pc = "loop"
    /\ polls.count >= 1
    /\ polls.seen = None
    /\ SUCCESS \in polls.others

====
